---- MODULE Spec2Model ----
(***************************************************************************)
(* A model of the shared-mime-info reader: the big-endian byte decoders,   *)
(* the cache loader (MimeCache::new), the generic-icon binary search       *)
(* (MimeCache::find_icon_for_mimetype), the two glob source readers and    *)
(* the glob index (Globber).                                               *)
(*                                                                         *)
(* Conventions.                                                            *)
(*  - A byte is a number in 0..255; a buffer or a string is a sequence of  *)
(*    bytes.  Rust offsets count from 0, sequences from 1: Slice and       *)
(*    ByteAt do the conversion.                                            *)
(*  - A u32 is kept at its full width as two 16-bit limbs [hi, lo]: the    *)
(*    integers of TLC have 31 bits, and u32::MAX must be a value.          *)
(*  - A Result is a record with a tag: "Ok", "Err" (with the Error         *)
(*    variant in err) or "Panic" (the process aborts); "None" is a result  *)
(*    not yet computed, and the None of an Option.                         *)
(*                                                                         *)
(* Specifications.                                                         *)
(*  - SpecCache: MimeCache::new on cache files of edge-value headers.      *)
(*  - SpecIcon:  find_icon_for_mimetype, an iteration of its loop at a     *)
(*    time, and the linear scan, on sorted generic-icons lists.            *)
(*  - SpecParse: get_globs2_data on texts of a few lines.                  *)
(*  - SpecGlob:  Globber::new and lookup_filename.                         *)
(*  - SpecNew:   MimeSearcher::new, a fallible step at a time.             *)
(***************************************************************************)
EXTENDS Integers, Sequences, FiniteSets

VARIABLES
    fs_cache,       \* /usr/share/mime/mime.cache: [readable, bytes]
    fs_globs2,      \* /usr/share/mime/globs2: [readable, text]
    in_header,      \* the eleven field values the cache file was encoded from
    in_icons,       \* the generic-icons records the cache file was encoded from
    in_globs,       \* the glob records the cache file was encoded from
    in_lines,       \* the lines the globs2 file was written from
    mime_cache,     \* the Result of MimeCache::new
    globber,        \* the Result of Globber::new
    globs2_out,     \* the Result of Globber::get_globs2_data
    mime_type,      \* find_icon_for_mimetype: the query
    min_index,      \* find_icon_for_mimetype: the locals of the loop
    max_index,
    index,
    pc,             \* find_icon_for_mimetype: "call", "loop" or "done"
    icon_result,    \* the Result of lib.rs's find_icon_for_mimetype
    linear_result,  \* the Result of mime_cache.rs's find_icon_for_mimetype
    path,           \* lookup_filename: the argument
    lookup_result,  \* lookup_filename: the Option returned
    locals,         \* MimeSearcher::new: cache_contents, globs2_data and the
                    \* binary glob list decoded, each None until its step ran
    steps,          \* MimeSearcher::new: the steps that ran, in order
    searcher        \* the Result of MimeSearcher::new

vars == <<fs_cache, fs_globs2, in_header, in_icons, in_globs, in_lines, mime_cache,
          globber,
          globs2_out, mime_type, min_index, max_index, index, pc, icon_result,
          linear_result, path, lookup_result, locals, steps, searcher>>

----------------------------------------------------------------------------
(* Bounds of the model. *)

\* Bytes that may follow the 40-byte header in the files of SpecCache.
MaxTail == 2

\* Records in the generic-icons list of SpecIcon.
MaxIcons == 3

\* Lines in the globs2 file of SpecParse.
MaxText == 2

\* Records in the glob list and lines in the globs2 file of SpecGlob, together.
MaxEntries == 3

----------------------------------------------------------------------------
(* Results. *)

None == [tag |-> "None"]
Ok(v) == [tag |-> "Ok", val |-> v]
Err(e) == [tag |-> "Err", err |-> e]
ErrLine(e, l) == [tag |-> "Err", err |-> e, line |-> l]
Panic == [tag |-> "Panic"]

\* The locals of MimeSearcher::new and of the two constructors it calls, before
\* any of them is bound.
NoLocals == [cache_contents |-> None, globs2_data |-> None, from_cache |-> None]

----------------------------------------------------------------------------
(* Bytes and words. *)

Pow2(k) == 2 ^ k

RECURSIVE BitOr(_, _)
BitOr(a, b) ==
    IF a = 0 THEN b
    ELSE IF b = 0 THEN a
    ELSE (IF a % 2 = 1 \/ b % 2 = 1 THEN 1 ELSE 0) + (2 * BitOr(a \div 2, b \div 2))

RECURSIVE BitAnd(_, _)
BitAnd(a, b) ==
    IF a = 0 \/ b = 0 THEN 0
    ELSE (IF a % 2 = 1 /\ b % 2 = 1 THEN 1 ELSE 0) + (2 * BitAnd(a \div 2, b \div 2))

\* A u32 as two 16-bit limbs.
W32(hi, lo) == [hi |-> hi, lo |-> lo]
U32(n) == W32(n \div 65536, n % 65536)
U32Max == W32(65535, 65535)

\* x << k on u16 and on u32 (Rust: bits shifted out are lost).
Shl16(x, k) == (x * Pow2(k)) % 65536
Shl32(w, k) ==
    IF k >= 16
    THEN W32((w.lo * Pow2(k - 16)) % 65536, 0)
    ELSE W32((((w.hi * Pow2(k)) % 65536) + ((w.lo * Pow2(k)) \div 65536)) % 65536,
             (w.lo * Pow2(k)) % 65536)
Or32(a, b) == W32(BitOr(a.hi, b.hi), BitOr(a.lo, b.lo))

\* data[a..b] and data[i], for 0-based a, b, i.
Slice(data, a, b) == SubSeq(data, a + 1, b)
ByteAt(data, i) == data[i + 1]

\* mime_cache.rs: ((input[0] as u16) << 8) | input[1] as u16
u8x2_u16_swapped(input) == BitOr(Shl16(ByteAt(input, 1), 8), ByteAt(input, 0))
u8x2_u16(input) == BitOr(Shl16(ByteAt(input, 0), 8), ByteAt(input, 1))

\* mime_cache.rs: (input[0] << 24) | (input[1] << 16) | (input[2] << 8) | input[3]
u8x4_u32(input) ==
    Or32(Or32(Or32(Shl32(U32(ByteAt(input, 0)), 24), Shl32(U32(ByteAt(input, 1)), 16)),
              Shl32(U32(ByteAt(input, 2)), 8)),
         U32(ByteAt(input, 3)))

\* core: u16::from_be_bytes and u32::from_be_bytes, the first byte the most
\* significant.
u16_from_be_bytes(b) == (ByteAt(b, 0) * 256) + ByteAt(b, 1)
u32_from_be_bytes(b) ==
    W32((ByteAt(b, 0) * 256) + ByteAt(b, 1), (ByteAt(b, 2) * 256) + ByteAt(b, 3))

\* usize is 64 bits wide: it holds every u32, and no sum or product of the code
\* overflows it.  TLC's integers have 31 bits, so a usize of 2^30 or more,
\* which is past the end of every buffer of this model, is kept as Far.
Far == Pow2(30)
AsUsize(w) == IF w.hi < 16384 THEN (w.hi * 65536) + w.lo ELSE Far
Add(a, b) == IF a >= Far \/ b >= Far THEN Far ELSE IF a + b >= Far THEN Far ELSE a + b
Mul(a, k) == IF a >= Far \div k THEN Far ELSE a * k

\* The encoders of the round trip: most significant byte first.
BE16(v) == <<v \div 256, v % 256>>
BE32(w) == BE16(w.hi) \o BE16(w.lo)

----------------------------------------------------------------------------
(* The header. *)

HeaderLen == 40

read_header_shifted(input) ==
    [major_version |-> u16_from_be_bytes(Slice(input, 0, 2)),
     minor_version |-> u16_from_be_bytes(Slice(input, 2, 4)),
     alias_list_offset |-> u32_from_be_bytes(Slice(input, 4, 8)),
     parent_list_offset |-> u32_from_be_bytes(Slice(input, 8, 12)),
     literal_list_offset |-> u32_from_be_bytes(Slice(input, 12, 16)),
     reverse_suffix_tree_offset |-> u32_from_be_bytes(Slice(input, 16, 20)),
     glob_list_offset |-> u32_from_be_bytes(Slice(input, 20, 24)),
     magic_list_offset |-> u32_from_be_bytes(Slice(input, 24, 28)),
     namespace_list_offset |-> u32_from_be_bytes(Slice(input, 28, 32)),
     icons_list_offset |-> u32_from_be_bytes(Slice(input, 36, 40)),
     generic_icons_list_offset |-> u32_from_be_bytes(Slice(input, 32, 36))]

\* lib.rs: MimeCacheHeader::read_header
read_header(input) ==
    [major_version |-> u16_from_be_bytes(Slice(input, 0, 2)),
     minor_version |-> u16_from_be_bytes(Slice(input, 2, 4)),
     alias_list_offset |-> u32_from_be_bytes(Slice(input, 4, 8)),
     parent_list_offset |-> u32_from_be_bytes(Slice(input, 8, 12)),
     literal_list_offset |-> u32_from_be_bytes(Slice(input, 12, 16)),
     reverse_suffix_tree_offset |-> u32_from_be_bytes(Slice(input, 16, 20)),
     glob_list_offset |-> u32_from_be_bytes(Slice(input, 20, 24)),
     magic_list_offset |-> u32_from_be_bytes(Slice(input, 24, 28)),
     namespace_list_offset |-> u32_from_be_bytes(Slice(input, 28, 32)),
     icons_list_offset |-> u32_from_be_bytes(Slice(input, 32, 36)),
     generic_icons_list_offset |-> u32_from_be_bytes(Slice(input, 36, 40))]

\* mime_cache.rs: MimeCacheHeader::read_header, on u8x2_u16 and u8x4_u32
read_header_u8x(input) ==
    [major_version |-> u8x2_u16(Slice(input, 0, 2)),
     minor_version |-> u8x2_u16(Slice(input, 2, 4)),
     alias_list_offset |-> u8x4_u32(Slice(input, 4, 8)),
     parent_list_offset |-> u8x4_u32(Slice(input, 8, 12)),
     literal_list_offset |-> u8x4_u32(Slice(input, 12, 16)),
     reverse_suffix_tree_offset |-> u8x4_u32(Slice(input, 16, 20)),
     glob_list_offset |-> u8x4_u32(Slice(input, 20, 24)),
     magic_list_offset |-> u8x4_u32(Slice(input, 24, 28)),
     namespace_list_offset |-> u8x4_u32(Slice(input, 28, 32)),
     icons_list_offset |-> u8x4_u32(Slice(input, 32, 36)),
     generic_icons_list_offset |-> u8x4_u32(Slice(input, 36, 40))]

\* The 40-byte prefix that encodes a header: the eleven fields at byte offsets
\* 0, 2, 4, 8, ..., 36.
EncodeHeader(h) ==
    BE16(h.major_version) \o BE16(h.minor_version)
    \o BE32(h.alias_list_offset) \o BE32(h.parent_list_offset)
    \o BE32(h.literal_list_offset) \o BE32(h.reverse_suffix_tree_offset)
    \o BE32(h.glob_list_offset) \o BE32(h.magic_list_offset)
    \o BE32(h.namespace_list_offset) \o BE32(h.icons_list_offset)
    \o BE32(h.generic_icons_list_offset)

----------------------------------------------------------------------------
(* The cache loader. *)

Unreadable == [readable |-> FALSE, bytes |-> <<>>]
File(bytes) == [readable |-> TRUE, bytes |-> bytes]

MimeCacheNew_inclusive(file) ==
    IF ~file.readable THEN Err("MimeCacheNotFound")
    ELSE IF Len(file.bytes) <= HeaderLen THEN Err("MissingHeader")
    ELSE Ok([cache_header |-> read_header(Slice(file.bytes, 0, HeaderLen)),
             cache_data |-> file.bytes])

\* lib.rs: MimeCache::new.  std::fs::read fails on a file that cannot be read;
\* cache_contents.get(0..40) is None when the content has fewer than 40 bytes.
MimeCacheNew(file) ==
    IF ~file.readable THEN Err("MimeCacheNotFound")
    ELSE IF Len(file.bytes) < HeaderLen THEN Err("MissingHeader")
    ELSE Ok([cache_header |-> read_header(Slice(file.bytes, 0, HeaderLen)),
             cache_data |-> file.bytes])

----------------------------------------------------------------------------
(* Strings inside the buffer. *)

\* lib.rs: get_u32_panics.  data[index..index + 4] panics when the range ends past
\* the end of data.
get_u32_panics(data, i) ==
    IF Add(i, 4) > Len(data) THEN Panic
    ELSE Ok(u32_from_be_bytes(Slice(data, i, i + 4)))

\* core: str::from_utf8, the well-formed byte sequences of Unicode table 3-7.
IsCont(b) == b >= 128 /\ b <= 191
RECURSIVE IsUtf8(_)
IsUtf8(s) ==
    IF s = <<>> THEN TRUE
    ELSE LET b == s[1]
             n == Len(s)
             rest(k) == SubSeq(s, k + 1, n) IN
         IF b < 128 THEN IsUtf8(rest(1))
         ELSE IF b >= 194 /\ b <= 223
              THEN n >= 2 /\ IsCont(s[2]) /\ IsUtf8(rest(2))
         ELSE IF b >= 224 /\ b <= 239
              THEN /\ n >= 3
                   /\ IF b = 224 THEN s[2] >= 160 /\ s[2] <= 191
                      ELSE IF b = 237 THEN s[2] >= 128 /\ s[2] <= 159
                      ELSE IsCont(s[2])
                   /\ IsCont(s[3])
                   /\ IsUtf8(rest(3))
         ELSE IF b >= 240 /\ b <= 244
              THEN /\ n >= 4
                   /\ IF b = 240 THEN s[2] >= 144 /\ s[2] <= 191
                      ELSE IF b = 244 THEN s[2] >= 128 /\ s[2] <= 143
                      ELSE IsCont(s[2])
                   /\ IsCont(s[3])
                   /\ IsCont(s[4])
                   /\ IsUtf8(rest(4))
         ELSE FALSE

\* CStr::from_bytes_until_nul(data.get(off..).unwrap()).map_err(CstrUnterminated)?
\*     .to_str().map_err(InvalidUTF8)?
\* data.get(off..) is None, and the unwrap panics, when off is past the end of data;
\* the string ends before the first zero byte at or after off.
ReadCStr(data, off) ==
    IF off > Len(data) THEN Panic
    ELSE LET nuls == {i \in off .. Len(data) - 1 : ByteAt(data, i) = 0} IN
         IF nuls = {} THEN Err("CstrUnterminated")
         ELSE LET end == CHOOSE i \in nuls : \A j \in nuls : i <= j
                  s == Slice(data, off, end) IN
              IF IsUtf8(s) THEN Ok(s) ELSE Err("InvalidUTF8")

\* Ord for String: the bytes compared in order, a proper prefix being less.
RECURSIVE Cmp(_, _)
Cmp(a, b) ==
    IF a = <<>> THEN (IF b = <<>> THEN "Equal" ELSE "Less")
    ELSE IF b = <<>> THEN "Greater"
    ELSE IF a[1] < b[1] THEN "Less"
    ELSE IF a[1] > b[1] THEN "Greater"
    ELSE Cmp(Tail(a), Tail(b))

----------------------------------------------------------------------------
(* The generic icon index. *)

\* lib.rs: const STRIDE in find_icon_for_mimetype
IconStride == 8

\* lib.rs: find_icon_for_mimetype, from its first line to the loop: the locals
\* the loop starts with, or the panic of reading num_icons.
FindIconEnter(cache) ==
    LET start == AsUsize(cache.cache_header.generic_icons_list_offset)
        num_icons == get_u32_panics(cache.cache_data, start) IN
    IF num_icons.tag = "Panic"
    THEN [pc |-> "done", min_index |-> 0, max_index |-> 0, index |-> 0,
          result |-> Panic]
    ELSE [pc |-> "loop", min_index |-> 0, max_index |-> AsUsize(num_icons.val),
          index |-> AsUsize(num_icons.val) \div 2, result |-> None]

\* The return of the function with `r`, the locals as they are.
Return(mn, mx, ix, r) ==
    [pc |-> "done", min_index |-> mn, max_index |-> mx, index |-> ix, result |-> r]

\* if index == max_index || index == min_index { break; }, and the
\* Err(NoIconFound) after the loop.
LoopEnd(mn, mx, ix) ==
    IF ix = mx \/ ix = mn
    THEN Return(mn, mx, ix, Err("NoIconFound"))
    ELSE [pc |-> "loop", min_index |-> mn, max_index |-> mx, index |-> ix,
          result |-> None]

\* lib.rs: one iteration of the loop of find_icon_for_mimetype.
FindIconIter(cache, query, mn, mx, ix) ==
    LET data == cache.cache_data
        list_start == Add(AsUsize(cache.cache_header.generic_icons_list_offset), 4)
        ptr == Add(list_start, Mul(ix, IconStride))
        mime_type_offset == get_u32_panics(data, ptr) IN
    IF mime_type_offset.tag = "Panic" THEN Return(mn, mx, ix, Panic)
    ELSE LET found_mime_type == ReadCStr(data, AsUsize(mime_type_offset.val)) IN
    IF found_mime_type.tag # "Ok" THEN Return(mn, mx, ix, found_mime_type)
    ELSE LET ord == Cmp(query, found_mime_type.val) IN
    IF ord = "Less" THEN LoopEnd(mn, ix, (ix + mn) \div 2)
    ELSE IF ord = "Greater" THEN LoopEnd(ix, mx, (mx + ix) \div 2)
    ELSE LET icon_name_offset == get_u32_panics(data, Add(ptr, 4)) IN
         IF icon_name_offset.tag = "Panic" THEN Return(mn, mx, ix, Panic)
         ELSE Return(mn, mx, ix, ReadCStr(data, AsUsize(icon_name_offset.val)))

\* mime_cache.rs: the loop of find_icon_for_mimetype, from the record at byte i to
\* the record before byte `stop`.
RECURSIVE LinearFrom(_, _, _, _)
LinearFrom(data, query, i, stop) ==
    IF i >= stop THEN Err("NoIconFound")
    ELSE LET mime_type_offset == get_u32_panics(data, i) IN
    IF mime_type_offset.tag = "Panic" THEN Panic
    ELSE LET found_mime_type == ReadCStr(data, AsUsize(mime_type_offset.val)) IN
    IF found_mime_type.tag # "Ok" THEN found_mime_type
    ELSE IF found_mime_type.val = query
         THEN LET icon_name_offset == get_u32_panics(data, Add(i, 4)) IN
              IF icon_name_offset.tag = "Panic" THEN Panic
              ELSE ReadCStr(data, AsUsize(icon_name_offset.val))
         ELSE LinearFrom(data, query, i + IconStride, stop)

\* mime_cache.rs: find_icon_for_mimetype, the linear scan.
find_icon_linear(cache, query) ==
    LET data == cache.cache_data
        start == AsUsize(cache.cache_header.generic_icons_list_offset)
        num_icons == get_u32_panics(data, start) IN
    IF num_icons.tag = "Panic" THEN Panic
    ELSE LET list_start == Add(start, 4) IN
         LinearFrom(data, query, list_start,
                    Add(list_start, Mul(AsUsize(num_icons.val), IconStride)))

----------------------------------------------------------------------------
(* The glob source readers. *)

\* lib.rs: const STRIDE in get_globs_from_cache
GlobStride == 12

\* A (String, GlobEntry) pair of the readers' output.
GlobTuple(glob, weight, mime) == [glob |-> glob, weight |-> weight, mime |-> mime]

\* lib.rs: the loop of get_globs_from_cache, from the record at byte i to the
\* record before byte `stop`, `output` being what was pushed so far.
RECURSIVE GlobsFrom(_, _, _, _)
GlobsFrom(data, i, stop, output) ==
    IF i >= stop THEN Ok(output)
    ELSE LET glob_offset == get_u32_panics(data, i) IN
    IF glob_offset.tag = "Panic" THEN Panic
    ELSE LET glob == ReadCStr(data, AsUsize(glob_offset.val)) IN
    IF glob.tag # "Ok" THEN glob
    ELSE LET mime_offset == get_u32_panics(data, Add(i, 4)) IN
    IF mime_offset.tag = "Panic" THEN Panic
    ELSE LET mime == ReadCStr(data, AsUsize(mime_offset.val)) IN
    IF mime.tag # "Ok" THEN mime
    ELSE LET meta == get_u32_panics(data, Add(i, 8)) IN
    IF meta.tag = "Panic" THEN Panic
    ELSE LET weight == BitAnd(meta.val.lo, 255) IN
         GlobsFrom(data, i + GlobStride, stop,
                   Append(output, GlobTuple(glob.val, weight, mime.val)))

\* lib.rs: Globber::get_globs_from_cache
get_globs_from_cache(cache) ==
    LET data == cache.cache_data
        start == AsUsize(cache.cache_header.glob_list_offset)
        num_globs == get_u32_panics(data, start) IN
    IF num_globs.tag = "Panic" THEN Panic
    ELSE LET list_start == Add(start, 4) IN
         GlobsFrom(data, list_start,
                   Add(list_start, Mul(AsUsize(num_globs.val), GlobStride)), <<>>)

\* The index of the first byte b of s, 0 when s has none.
IndexOf(s, b) ==
    IF \E i \in 1..Len(s) : s[i] = b
    THEN CHOOSE i \in 1..Len(s) : s[i] = b /\ \A j \in 1..(i - 1) : s[j] # b
    ELSE 0

\* core: str::lines.  A line ends at "\n" or "\r\n"; the last line need not be
\* ended, and a text that ends with a line ending has no empty last line.
RECURSIVE Lines(_)
Lines(text) ==
    IF text = <<>> THEN <<>>
    ELSE LET nl == IndexOf(text, 10) IN
         IF nl = 0 THEN <<text>>
         ELSE LET line == SubSeq(text, 1, nl - 1)
                  stripped == IF line # <<>> /\ line[Len(line)] = 13
                              THEN SubSeq(line, 1, Len(line) - 1)
                              ELSE line IN
              <<stripped>> \o Lines(SubSeq(text, nl + 1, Len(text)))

\* core: str::splitn(n, sep): at most n parts, the last one the rest of the string.
RECURSIVE SplitN_every(_, _, _)
SplitN_every(s, n, sep) ==
    LET at == IndexOf(s, sep) IN
    IF at = 0 THEN <<s>>
    ELSE <<SubSeq(s, 1, at - 1)>> \o SplitN_every(SubSeq(s, at + 1, Len(s)), n, sep)
RECURSIVE SplitN(_, _, _)
SplitN(s, n, sep) ==
    LET at == IndexOf(s, sep) IN
    IF n <= 1 \/ at = 0 THEN <<s>>
    ELSE <<SubSeq(s, 1, at - 1)>> \o SplitN(SubSeq(s, at + 1, Len(s)), n - 1, sep)

\* u8::MAX
U8Max == 255

\* core: the digit loop of u8::from_str: every byte a decimal digit, the value
\* checked against u8::MAX at each digit.
RECURSIVE ParseDigits(_, _)
ParseDigits(digits, acc) ==
    IF digits = <<>> THEN Ok(acc)
    ELSE IF digits[1] < 48 \/ digits[1] > 57 THEN Err("NotANumber")
    ELSE IF acc * 10 + (digits[1] - 48) > U8Max THEN Err("NotANumber")
    ELSE ParseDigits(Tail(digits), acc * 10 + (digits[1] - 48))

\* weight_raw.parse::<u8>().map_err(|_| Error::NotANumber): the empty string and a
\* lone sign are errors, one leading "+" is skipped, "-" is no digit.
ParseU8(src) ==
    IF src = <<>> THEN Err("NotANumber")
    ELSE IF src = <<43>> \/ src = <<45>> THEN Err("NotANumber")
    ELSE IF src[1] = 43 THEN ParseDigits(Tail(src), 0)
    ELSE ParseDigits(src, 0)

\* lib.rs: the loop of get_globs2_data over the lines left, `output` being what
\* was pushed so far.
RECURSIVE Globs2From(_, _)
Globs2From(lines, output) ==
    IF lines = <<>> THEN Ok(output)
    ELSE LET line == Head(lines) IN
    IF line # <<>> /\ line[1] = 35 THEN Globs2From(Tail(lines), output)
    ELSE LET line_conents == SplitN(line, 3, 58) IN
    IF Len(line_conents) # 3 THEN ErrLine("Globs2BadLine", line)
    ELSE LET weight == ParseU8(line_conents[1]) IN
    IF weight.tag # "Ok" THEN weight
    ELSE Globs2From(Tail(lines),
                    Append(output,
                           GlobTuple(line_conents[3], weight.val, line_conents[2])))

\* lib.rs: Globber::get_globs2_data
get_globs2_data(globs) == Globs2From(Lines(globs), <<>>)

----------------------------------------------------------------------------
(* The glob index. *)

\* HashMap::insert: the value of key k is v, whatever it was.
Insert_keep_heavier(map, k, v) ==
    IF k \in DOMAIN map /\ map[k].weight > v.weight THEN map
    ELSE [x \in DOMAIN map \cup {k} |-> IF x = k THEN v ELSE map[x]]
Insert(map, k, v) == [x \in DOMAIN map \cup {k} |-> IF x = k THEN v ELSE map[x]]

HasPrefix(s, prefix) == Len(s) >= Len(prefix) /\ SubSeq(s, 1, Len(prefix)) = prefix
Contains(s, b) == \E i \in 1..Len(s) : s[i] = b

\* k.strip_prefix("*.") && !(k.contains('?') || k.contains('[')): Some(key) for a
\* glob that is kept, None for one that is skipped.
SimpleKey_any_suffix(glob) ==
    IF HasPrefix(glob, <<42, 46>>)
    THEN Ok(SubSeq(glob, 3, Len(glob)))
    ELSE None
SimpleKey(glob) ==
    IF HasPrefix(glob, <<42, 46>>)
       /\ ~(Contains(SubSeq(glob, 3, Len(glob)), 63) \/ Contains(SubSeq(glob, 3, Len(glob)), 91))
    THEN Ok(SubSeq(glob, 3, Len(glob)))
    ELSE None

\* lib.rs: the for loop of Globber::new over the pairs left.
RECURSIVE InsertAll(_, _)
InsertAll(hashmap, pairs) ==
    IF pairs = <<>> THEN hashmap
    ELSE LET k == SimpleKey(Head(pairs).glob)
             v == [weight |-> Head(pairs).weight, mime |-> Head(pairs).mime] IN
         InsertAll(IF k.tag = "Ok" THEN Insert(hashmap, k.val, v) ELSE hashmap,
                   Tail(pairs))

EmptyMap == [x \in {} |-> 0]

\* lib.rs: Globber::new.  read_to_string fails on a file that cannot be read and
\* on one that is not UTF-8; both readers have run before the first insert.
GlobberNew(cache, file) ==
    IF ~file.readable \/ ~IsUtf8(file.text) THEN Err("Globs2NotFound")
    ELSE LET from_cache == get_globs_from_cache(cache) IN
    IF from_cache.tag # "Ok" THEN from_cache
    ELSE LET from_globs2 == get_globs2_data(file.text) IN
    IF from_globs2.tag # "Ok" THEN from_globs2
    ELSE Ok([globs2_data |-> file.text,
             simple_globing_map |-> InsertAll(EmptyMap, from_cache.val \o from_globs2.val)])

\* std: Path::file_name.  The last component of the path, trailing "/" and "/."
\* left out; None for the empty path, the root, "." and a path that ends in "..".
RECURSIVE FileName(_)
FileName(p) ==
    IF p = <<>> THEN None
    ELSE IF p[Len(p)] = 47 THEN FileName(SubSeq(p, 1, Len(p) - 1))
    ELSE LET slashes == {i \in 1..Len(p) : p[i] = 47}
             cut == IF slashes = {} THEN 0
                    ELSE CHOOSE i \in slashes : \A j \in slashes : j <= i
             last == SubSeq(p, cut + 1, Len(p)) IN
         IF last = <<46, 46>> THEN None
         ELSE IF last = <<46>> THEN FileName(SubSeq(p, 1, cut))
         ELSE Ok(last)

\* std: Path::extension of a file name (rsplit_file_at_dot): the text after the
\* last ".", None when the name has no "." or nothing before its last ".".
ExtensionOf_first_dot(file) ==
    LET at == IndexOf(file, 46) IN
    IF at <= 1 THEN None ELSE Ok(SubSeq(file, at + 1, Len(file)))
ExtensionOf(file) ==
    LET dots == {i \in 1..Len(file) : file[i] = 46} IN
    IF dots = {} THEN None
    ELSE LET at == CHOOSE i \in dots : \A j \in dots : j <= i
             before == SubSeq(file, 1, at - 1)
             after == SubSeq(file, at + 1, Len(file)) IN
         IF before = <<>> THEN None ELSE Ok(after)

\* std: Path::extension
Extension(p) ==
    LET file == FileName(p) IN
    IF file.tag = "Ok" THEN ExtensionOf(file.val) ELSE None

\* lib.rs: Globber::lookup_filename
lookup_filename(g, name) ==
    LET ext == Extension(name) IN
    IF ext.tag = "Ok" /\ IsUtf8(ext.val) /\ ext.val \in DOMAIN g.simple_globing_map
    THEN Ok(g.simple_globing_map[ext.val].mime)
    ELSE None

----------------------------------------------------------------------------
(* Cache files, as update-mime-database lays them out: the header, the strings
   (each ended by a zero byte), the glob list, the generic-icons list. *)

RECURSIVE Pool(_)
Pool(strs) == IF strs = <<>> THEN <<>> ELSE Head(strs) \o <<0>> \o Pool(Tail(strs))

\* The offset in the file of the k-th string of the pool.
StrOffset(strs, k) == HeaderLen + Len(Pool(SubSeq(strs, 1, k - 1)))

RECURSIVE IconStrings(_)
IconStrings(icons) ==
    IF icons = <<>> THEN <<>>
    ELSE <<Head(icons).mime, Head(icons).icon>> \o IconStrings(Tail(icons))

RECURSIVE GlobStrings(_)
GlobStrings(globs) ==
    IF globs = <<>> THEN <<>>
    ELSE <<Head(globs).glob, Head(globs).mime>> \o GlobStrings(Tail(globs))

RECURSIVE IconRecords(_, _, _)
IconRecords(strs, first, n) ==
    IF n = 0 THEN <<>>
    ELSE BE32(U32(StrOffset(strs, first))) \o BE32(U32(StrOffset(strs, first + 1)))
         \o IconRecords(strs, first + 2, n - 1)

RECURSIVE GlobRecords(_, _, _)
GlobRecords(strs, first, globs) ==
    IF globs = <<>> THEN <<>>
    ELSE BE32(U32(StrOffset(strs, first))) \o BE32(U32(StrOffset(strs, first + 1)))
         \o BE32(U32(Head(globs).meta))
         \o GlobRecords(strs, first + 2, Tail(globs))

\* The header of a file whose glob list is at byte g and whose generic-icons list
\* is at byte i.
LayoutHeader(g, i) ==
    [major_version |-> 1, minor_version |-> 2,
     alias_list_offset |-> U32(g), parent_list_offset |-> U32(g),
     literal_list_offset |-> U32(g), reverse_suffix_tree_offset |-> U32(g),
     glob_list_offset |-> U32(g), magic_list_offset |-> U32(i),
     namespace_list_offset |-> U32(i), icons_list_offset |-> U32(i),
     generic_icons_list_offset |-> U32(i)]

\* The string "a" and the record that names it twice: the bytes of a file that
\* goes on after the generic-icons list, which ends at byte e.
Trailer(e) == BE32(U32(e + IconStride)) \o BE32(U32(e + IconStride)) \o <<97, 0>>

\* The bytes of the cache file with these glob records and generic-icons records;
\* with `trail` the file goes on after the generic-icons list, which is otherwise
\* its last section.
BuildCache(globs, icons, trail) ==
    LET strs == GlobStrings(globs) \o IconStrings(icons)
        g == HeaderLen + Len(Pool(strs))
        i == g + 4 + 12 * Len(globs)
        e == i + 4 + IconStride * Len(icons) IN
    EncodeHeader(LayoutHeader(g, i)) \o Pool(strs)
    \o BE32(U32(Len(globs))) \o GlobRecords(strs, 1, globs)
    \o BE32(U32(Len(icons))) \o IconRecords(strs, 2 * Len(globs) + 1, Len(icons))
    \o (IF trail THEN Trailer(e) ELSE <<>>)

----------------------------------------------------------------------------
(* The files of SpecCache: a header of edge values, cut or padded. *)

Words16 == {0, 1, 258, 65535}
Words32 == {U32(1), U32(256), W32(1, 0), W32(258, 772), U32Max}

HeaderOf(major, minor, o) ==
    [major_version |-> major, minor_version |-> minor,
     alias_list_offset |-> o[1], parent_list_offset |-> o[2],
     literal_list_offset |-> o[3], reverse_suffix_tree_offset |-> o[4],
     glob_list_offset |-> o[5], magic_list_offset |-> o[6],
     namespace_list_offset |-> o[7], icons_list_offset |-> o[8],
     generic_icons_list_offset |-> o[9]]

\* Nine offsets: all the same, all different, or all zero but one.
OffsetProfiles ==
    {[k \in 1..9 |-> w] : w \in {U32(0), U32Max}}
    \cup {[k \in 1..9 |-> W32(k, 40 + k)]}
    \cup {[k \in 1..9 |-> IF k % 3 = 0 THEN U32Max ELSE U32((k % 3) - 1)]}
    \cup {[k \in 1..9 |-> IF k = j THEN w ELSE U32(0)] : j \in 1..9, w \in Words32}

HeaderSamples ==
    {HeaderOf(v[1], v[2], o) :
        v \in {<<1, 2>>, <<0, 65535>>, <<65535, 1>>, <<258, 0>>}, o \in OffsetProfiles}

Padding(n) == [k \in 1..n |-> 7]

\* The first n bytes of the header's encoding followed by MaxTail bytes.
CacheFileOf(h, n) == File(SubSeq(EncodeHeader(h) \o Padding(MaxTail), 1, n))

FileLengths == {0, 1, HeaderLen - 1} \cup (HeaderLen .. HeaderLen + MaxTail)

NoFile == [readable |-> FALSE, text |-> <<>>]

InitCache ==
    /\ in_header \in HeaderSamples
    /\ fs_cache \in {Unreadable} \cup {CacheFileOf(in_header, n) : n \in FileLengths}
    /\ fs_globs2 = NoFile
    /\ in_icons = <<>>
    /\ in_globs = <<>>
    /\ in_lines = <<>>
    /\ mime_cache = None
    /\ globber = None
    /\ globs2_out = None
    /\ mime_type = <<>>
    /\ min_index = 0
    /\ max_index = 0
    /\ index = 0
    /\ pc = "idle"
    /\ icon_result = None
    /\ linear_result = None
    /\ path = <<>>
    /\ lookup_result = None
    /\ locals = NoLocals
    /\ steps = <<>>
    /\ searcher = None

\* MimeCache::new()
CacheNew ==
    /\ mime_cache.tag = "None"
    /\ mime_cache' = MimeCacheNew(fs_cache)
    /\ UNCHANGED <<fs_cache, fs_globs2, in_header, in_icons, in_globs, in_lines,
                   globber, globs2_out, mime_type, min_index, max_index, index, pc,
                   icon_result, linear_result, path, lookup_result,
                   locals, steps, searcher>>

NextCache == CacheNew

SpecCache == InitCache /\ [][NextCache]_vars

----------------------------------------------------------------------------
(* C9, C10: the cache loader and the byte decoders. *)

\* C9: MimeCache::new fails with MimeCacheNotFound when the cache file cannot be
\* read, fails with MissingHeader when the file has fewer than 40 bytes, and
\* succeeds for every file of 40 or more bytes whatever its offset fields hold; on
\* success the stored buffer is the whole content of the file.
C9_CacheNew ==
    mime_cache.tag # "None" =>
        /\ ~fs_cache.readable => mime_cache = Err("MimeCacheNotFound")
        /\ fs_cache.readable /\ Len(fs_cache.bytes) < 40 =>
               mime_cache = Err("MissingHeader")
        /\ fs_cache.readable /\ Len(fs_cache.bytes) >= 40 =>
               /\ mime_cache.tag = "Ok"
               /\ mime_cache.val.cache_data = fs_cache.bytes

\* A file of exactly 40 bytes whose offsets all point far past its end was loaded.
C9_Witness ==
    /\ mime_cache.tag = "Ok"
    /\ Len(fs_cache.bytes) = 40
    /\ in_header.generic_icons_list_offset = U32Max
    /\ in_header.glob_list_offset = U32Max

HeaderFields32 ==
    {"alias_list_offset", "parent_list_offset", "literal_list_offset",
     "reverse_suffix_tree_offset", "glob_list_offset", "magic_list_offset",
     "namespace_list_offset", "icons_list_offset", "generic_icons_list_offset"}

\* C10: decoding is the inverse of big-endian encoding: u8x2_u16 and u8x4_u32
\* return the value whose most-significant-byte-first encoding they are given, and
\* read_header (of lib.rs and of mime_cache.rs) of the 40-byte prefix that encodes
\* eleven field values returns those values, each in its own field.
C10_RoundTrip ==
    mime_cache.tag = "Ok" =>
        /\ mime_cache.val.cache_header = in_header
        /\ read_header_u8x(Slice(mime_cache.val.cache_data, 0, 40)) = in_header
        /\ \A v \in {in_header.major_version, in_header.minor_version} :
               /\ u8x2_u16(BE16(v)) = v
               /\ u16_from_be_bytes(BE16(v)) = v
        /\ \A f \in HeaderFields32 :
               /\ u8x4_u32(BE32(in_header[f])) = in_header[f]
               /\ u32_from_be_bytes(BE32(in_header[f])) = in_header[f]

\* u8x2_u16 inverts the encoding of every 16-bit value (evaluated in the states
\* of one header only: it reads no variable but to pick them).
U16RoundTripAll ==
    in_header = HeaderOf(1, 2, [k \in 1..9 |-> U32(0)]) /\ ~fs_cache.readable =>
        \A v \in 0..65535 : u8x2_u16(BE16(v)) = v /\ u16_from_be_bytes(BE16(v)) = v

\* A header holding 0, 1 and the maximum of both widths was decoded.
C10_Witness ==
    /\ mime_cache.tag = "Ok"
    /\ in_header.major_version = 65535
    /\ in_header.minor_version = 1
    /\ in_header.alias_list_offset = U32(0)
    /\ in_header.parent_list_offset = U32(1)
    /\ in_header.literal_list_offset = U32Max
    /\ mime_cache.val.cache_header.literal_list_offset = U32Max

----------------------------------------------------------------------------
(* SpecIcon: one call of find_icon_for_mimetype, the loop an iteration at a time,
   and one call of the linear scan, on a cache whose generic-icons list is sorted. *)

\* "a" < "aa" < "ab" < "b" < "ba" < "bb"
MimeStrings == {<<97>>, <<97, 97>>, <<97, 98>>, <<98>>, <<98, 97>>, <<98, 98>>}

\* The queries: the strings a record may hold, the empty string and "c".
Queries == MimeStrings \cup {<<>>, <<99>>}

\* The k-th record's icon name: "i1", "i2", ...
IconName(k) == <<105, 48 + k>>

\* The lists of at most MaxIcons records, ascending by MIME type, no two equal.
SortedMimes ==
    {x \in UNION {[1..n -> MimeStrings] : n \in 0..MaxIcons} :
        \A k \in 1..(Len(x) - 1) : Cmp(x[k], x[k + 1]) = "Less"}

SortedIconLists ==
    {[k \in 1..Len(m) |-> [mime |-> m[k], icon |-> IconName(k)]] : m \in SortedMimes}

InitIcon ==
    /\ in_icons \in SortedIconLists
    /\ in_globs = <<>>
    /\ in_lines = <<>>
    /\ \E trail \in BOOLEAN : fs_cache = File(BuildCache(in_globs, in_icons, trail))
    /\ fs_globs2 = NoFile
    /\ mime_cache = MimeCacheNew(fs_cache)
    /\ in_header = mime_cache.val.cache_header
    /\ globber = None
    /\ globs2_out = None
    /\ mime_type \in Queries
    /\ min_index = 0
    /\ max_index = 0
    /\ index = 0
    /\ pc = "call"
    /\ icon_result = None
    /\ linear_result = None
    /\ path = <<>>
    /\ lookup_result = None
    /\ locals = NoLocals
    /\ steps = <<>>
    /\ searcher = None

\* The locals and the result after a step of find_icon_for_mimetype.
FindIconStep(s) ==
    /\ pc' = s.pc
    /\ min_index' = s.min_index
    /\ max_index' = s.max_index
    /\ index' = s.index
    /\ icon_result' = s.result
    /\ UNCHANGED <<fs_cache, fs_globs2, in_header, in_icons, in_globs, in_lines,
                   mime_cache, globber, globs2_out, mime_type, linear_result, path,
                   lookup_result,
                   locals, steps, searcher>>

\* lib.rs: find_icon_for_mimetype is called, and reaches its loop.
FindIconCall ==
    /\ pc = "call"
    /\ FindIconStep(FindIconEnter(mime_cache.val))

\* lib.rs: one iteration of the loop.
FindIconLoop ==
    /\ pc = "loop"
    /\ FindIconStep(FindIconIter(mime_cache.val, mime_type, min_index, max_index, index))

\* mime_cache.rs: find_icon_for_mimetype, the whole call.
LinearScan ==
    /\ linear_result.tag = "None"
    /\ linear_result' = find_icon_linear(mime_cache.val, mime_type)
    /\ UNCHANGED <<fs_cache, fs_globs2, in_header, in_icons, in_globs, in_lines,
                   mime_cache, globber, globs2_out, mime_type, min_index, max_index,
                   index, pc, icon_result, path, lookup_result,
                   locals, steps, searcher>>

NextIcon == FindIconCall \/ FindIconLoop \/ LinearScan

SpecIcon == InitIcon /\ [][NextIcon]_vars

----------------------------------------------------------------------------
(* C1, C2, C3: the result of the binary search. *)

\* The index of the record that holds the query, 0 when none does.
RecordOf(q) ==
    IF \E k \in 1..Len(in_icons) : in_icons[k].mime = q
    THEN CHOOSE k \in 1..Len(in_icons) : in_icons[k].mime = q
    ELSE 0

\* C1: for a sorted list of N >= 1 records and each of them, the first and the last
\* included, find_icon_for_mimetype of the record's MIME type returns Ok with the
\* record's icon name.
C1_PresentFound ==
    pc = "done" /\ RecordOf(mime_type) # 0 =>
        icon_result = Ok(in_icons[RecordOf(mime_type)].icon)

\* C2: for a sorted list of N >= 0 records and a query that no record holds,
\* find_icon_for_mimetype returns Err(NoIconFound), for the empty list too.
C2_AbsentNotFound ==
    pc = "done" /\ RecordOf(mime_type) = 0 => icon_result = Err("NoIconFound")

\* C3: for a sorted list and any query, the binary search of lib.rs returns what
\* the linear scan of mime_cache.rs returns on the same cache.
C3_SameAsLinear ==
    pc = "done" /\ linear_result.tag # "None" => icon_result = linear_result

\* What the code does instead.  Every record but the first of a list of two or
\* more is found; the first one is found only when the list has one record.
FoundButFirst ==
    pc = "done" /\ RecordOf(mime_type) # 0 =>
        IF RecordOf(mime_type) = 1 /\ Len(in_icons) >= 2
        THEN icon_result = Err("NoIconFound")
        ELSE icon_result = Ok(in_icons[RecordOf(mime_type)].icon)

\* A query that no record holds is not found when the list has a record.
AbsentNotFoundNonEmpty ==
    pc = "done" /\ RecordOf(mime_type) = 0 /\ Len(in_icons) >= 1 =>
        icon_result = Err("NoIconFound")

\* The empty list: the loop reads the record at index 0, which the list does not
\* have, and the result is what the bytes after the list make it.
EmptyListReadsPastList ==
    pc = "done" /\ Len(in_icons) = 0 =>
        \/ icon_result = Panic
        \/ icon_result = Err("NoIconFound") /\ mime_type # <<97>>
        \/ icon_result = Ok(<<97>>) /\ mime_type = <<97>>

\* The linear scan finds every record and nothing else.
LinearIsRight ==
    linear_result.tag # "None" =>
        linear_result = IF RecordOf(mime_type) # 0
                        THEN Ok(in_icons[RecordOf(mime_type)].icon)
                        ELSE Err("NoIconFound")

----------------------------------------------------------------------------
(* C11, C12: the loop of the binary search, an iteration at a time. *)

\* The results the call is said to end with: a match, a decode error, or
\* NoIconFound after the loop.
IsSearchResult(r) ==
    \/ r.tag = "Ok"
    \/ r \in {Err("CstrUnterminated"), Err("InvalidUTF8"), Err("NoIconFound")}

\* C11: for every record count N >= 0 and every query, the loop of
\* find_icon_for_mimetype ends, and the call ends with a match, a decode error
\* or NoIconFound.
C11_EndsWithResult ==
    pc = "done" => IsSearchResult(icon_result)

\* An iteration never widens the bounds, and one that goes on narrows them: with
\* LoopWithinWidth, the loop ends within N + 1 iterations.
WidthNeverGrows ==
    [][FindIconLoop =>
        /\ max_index' - min_index' <= max_index - min_index
        /\ pc' = "loop" => max_index' - min_index' < max_index - min_index]_vars

\* The width is never negative and never more than N.
LoopWithinWidth ==
    pc = "loop" => min_index <= max_index /\ max_index - min_index <= Len(in_icons)

\* With a record in the list, the call ends with one of the three results.
EndsWithResultNonEmpty ==
    pc = "done" /\ Len(in_icons) >= 1 => IsSearchResult(icon_result)

\* C12: whenever a record is probed the bounds satisfy
\* min_index <= index < max_index <= N, for N = 0 too, and the loop ends without
\* a match only when the bounds have collapsed (max_index = min_index).
C12_ProbesInsideList ==
    /\ pc = "loop" =>
            min_index <= index /\ index < max_index /\ max_index <= Len(in_icons)
    /\ pc = "done" /\ icon_result = Err("NoIconFound") => max_index = min_index

\* What the code does instead.  With a record in the list every probe is inside
\* the list; with none, the one probe is of index 0 = max_index = N.
ProbesInsideNonEmpty ==
    pc = "loop" =>
        IF Len(in_icons) >= 1
        THEN min_index <= index /\ index < max_index /\ max_index <= Len(in_icons)
        ELSE min_index = 0 /\ index = 0 /\ max_index = 0

\* The loop ends without a match when index meets a bound, the bounds one apart
\* or less: they have collapsed only when there was one record and the query
\* sorts before it, or none.
EndsAtBound ==
    pc = "done" /\ icon_result = Err("NoIconFound") =>
        /\ index = min_index \/ index = max_index
        /\ max_index - min_index <= 1
        /\ max_index = min_index => Len(in_icons) <= 1

\* A list of one record and a query that sorts after it: the loop ends without a
\* match, the bounds one apart.
EndsUncollapsed ==
    /\ pc = "done" /\ icon_result = Err("NoIconFound")
    /\ Len(in_icons) = 1 /\ min_index = 0 /\ max_index = 1

----------------------------------------------------------------------------
(* Text files. *)

SeqsUpTo(S, n) == UNION {[1..k -> S] : k \in 0..n}

\* The text whose lines are `lines`, each ended by `ending`.
RECURSIVE JoinLines(_, _)
JoinLines(lines, ending) ==
    IF lines = <<>> THEN <<>>
    ELSE Head(lines) \o ending \o JoinLines(Tail(lines), ending)

\* The texts whose lines are `lines`: ended by "\n", ended by "\r\n", and, when
\* the last line is not empty, ended by "\n" but for the last line.
TextsOf(lines) ==
    {JoinLines(lines, <<10>>), JoinLines(lines, <<13, 10>>)}
    \cup IF lines # <<>> /\ lines[Len(lines)] # <<>>
         THEN {SubSeq(JoinLines(lines, <<10>>), 1, Len(JoinLines(lines, <<10>>)) - 1)}
         ELSE {}

TextFile(text) == [readable |-> TRUE, text |-> text]

----------------------------------------------------------------------------
(* SpecParse: one call of get_globs2_data on a text of a few lines. *)

ParseLines ==
    {<<53, 48, 58, 109, 58, 42, 46, 97>>,           \* 50:m:*.a
     <<50, 53, 53, 58, 109, 58, 42, 46, 97>>,       \* 255:m:*.a
     <<48, 48, 55, 58, 110, 58>>,                   \* 007:n:
     <<43, 55, 58, 109, 58, 42, 46, 98, 58, 99>>,   \* +7:m:*.b:c
     <<35, 99>>,                                    \* #c
     <<35, 53, 58, 109>>,                           \* #5:m
     <<>>,                                          \* the empty line
     <<53, 58, 109>>,                               \* 5:m
     <<120>>,                                       \* x
     <<120, 58, 109, 58, 42, 46, 97>>,              \* x:m:*.a
     <<50, 53, 54, 58, 109, 58, 42, 46, 97>>,       \* 256:m:*.a
     <<45, 49, 58, 109, 58, 42, 46, 97>>,           \* -1:m:*.a
     <<58, 109, 58, 42, 46, 97>>}                   \* :m:*.a

InitParse ==
    /\ in_lines \in SeqsUpTo(ParseLines, MaxText)
    /\ \E text \in TextsOf(in_lines) : fs_globs2 = TextFile(text)
    /\ fs_cache = Unreadable
    /\ in_header = LayoutHeader(HeaderLen, HeaderLen)
    /\ in_icons = <<>>
    /\ in_globs = <<>>
    /\ mime_cache = None
    /\ globber = None
    /\ globs2_out = None
    /\ mime_type = <<>>
    /\ min_index = 0
    /\ max_index = 0
    /\ index = 0
    /\ pc = "idle"
    /\ icon_result = None
    /\ linear_result = None
    /\ path = <<>>
    /\ lookup_result = None
    /\ locals = NoLocals
    /\ steps = <<>>
    /\ searcher = None

\* Globber::get_globs2_data(&globs2_data)
ParseGlobs2 ==
    /\ globs2_out.tag = "None"
    /\ globs2_out' = get_globs2_data(fs_globs2.text)
    /\ UNCHANGED <<fs_cache, fs_globs2, in_header, in_icons, in_globs, in_lines,
                   mime_cache, globber, mime_type, min_index, max_index, index, pc,
                   icon_result, linear_result, path, lookup_result,
                   locals, steps, searcher>>

NextParse == ParseGlobs2

SpecParse == InitParse /\ [][NextParse]_vars

----------------------------------------------------------------------------
(* C7, C8: the lines of the text source. *)

\* The places of the ":" of a line, and the first and the second of them.
Colons(line) == {i \in 1..Len(line) : line[i] = 58}
Colon1(line) == CHOOSE i \in Colons(line) : \A j \in Colons(line) : i <= j
Colon2(line) ==
    CHOOSE i \in Colons(line) \ {Colon1(line)} :
        \A j \in Colons(line) \ {Colon1(line)} : i <= j

IsComment(line) == line # <<>> /\ line[1] = 35

\* The three fields of a line with two ":" or more.
WeightText(line) == SubSeq(line, 1, Colon1(line) - 1)
MimeText(line) == SubSeq(line, Colon1(line) + 1, Colon2(line) - 1)
GlobText(line) == SubSeq(line, Colon2(line) + 1, Len(line))

\* The number a string of decimal digits writes.
RECURSIVE DecimalValue(_)
DecimalValue(d) ==
    IF d = <<>> THEN 0
    ELSE DecimalValue(SubSeq(d, 1, Len(d) - 1)) * 10 + (d[Len(d)] - 48)

\* A decimal integer in 0..255: digits, one at least, after at most one "+" sign.
Unsigned(w) == IF w # <<>> /\ w[1] = 43 THEN Tail(w) ELSE w
IsDecimalU8(w) ==
    /\ Unsigned(w) # <<>>
    /\ \A i \in 1..Len(Unsigned(w)) : Unsigned(w)[i] \in 48..57
    /\ DecimalValue(Unsigned(w)) <= 255

WellFormed(line) == Cardinality(Colons(line)) >= 2 /\ IsDecimalU8(WeightText(line))

TupleOf(line) ==
    GlobTuple(GlobText(line), DecimalValue(Unsigned(WeightText(line))), MimeText(line))

RECURSIVE TuplesOf(_)
TuplesOf(lines) ==
    IF lines = <<>> THEN <<>> ELSE <<TupleOf(Head(lines))>> \o TuplesOf(Tail(lines))

IsRemaining(line) == line # <<>> /\ ~IsComment(line)
IsNotComment(line) == ~IsComment(line)

\* C7: get_globs2_data ignores every empty line and every line that starts with
\* "#": no tuple and no error come from them, and the output is one tuple per
\* remaining line, in line order.
C7_SkipsBlankAndComment ==
    (/\ globs2_out.tag # "None"
     /\ \A i \in 1..Len(in_lines) : IsRemaining(in_lines[i]) => WellFormed(in_lines[i]))
    => globs2_out = Ok(TuplesOf(SelectSeq(in_lines, IsRemaining)))

\* What the code does instead: the lines that start with "#" are ignored, and an
\* empty line is an error like any other line with fewer than two ":".
SkipsComment ==
    (/\ globs2_out.tag # "None"
     /\ \A i \in 1..Len(in_lines) : IsNotComment(in_lines[i]) => WellFormed(in_lines[i]))
    => globs2_out = Ok(TuplesOf(SelectSeq(in_lines, IsNotComment)))

\* The lines that make the read fail, and the first of them.
BadLines == {i \in 1..Len(in_lines) : IsNotComment(in_lines[i]) /\ ~WellFormed(in_lines[i])}
FirstBad == CHOOSE i \in BadLines : \A j \in BadLines : i <= j

\* C8: a line that is no comment and has fewer than two ":" fails the read with
\* Globs2BadLine carrying the line; one with two ":" or more whose text before the
\* first ":" is no decimal integer in 0..255 fails it with NotANumber; a line with
\* more than two ":" is no error, everything after the second ":" being its glob.
\* A failed read returns the error of the first such line and no tuple.
C8_LineErrors ==
    globs2_out.tag # "None" =>
        IF BadLines = {}
        THEN globs2_out = Ok(TuplesOf(SelectSeq(in_lines, IsNotComment)))
        ELSE IF Cardinality(Colons(in_lines[FirstBad])) < 2
             THEN globs2_out = ErrLine("Globs2BadLine", in_lines[FirstBad])
             ELSE globs2_out = Err("NotANumber")

\* A read that failed with NotANumber after a good line, one that failed with
\* Globs2BadLine, and one that kept a glob with a ":" in it are all reached.
C8_Witness ==
    /\ globs2_out = Err("NotANumber")
    /\ Len(in_lines) = 2
    /\ WellFormed(in_lines[1])
    /\ Cardinality(Colons(in_lines[1])) > 2
    /\ Cardinality(Colons(in_lines[2])) >= 2

C8_WitnessBadLine ==
    /\ globs2_out.tag = "Err"
    /\ globs2_out.err = "Globs2BadLine"
    /\ globs2_out.line = <<53, 58, 109>>

C8_WitnessColonGlob ==
    /\ globs2_out.tag = "Ok"
    /\ \E i \in 1..Len(globs2_out.val) :
           globs2_out.val[i] = GlobTuple(<<42, 46, 98, 58, 99>>, 7, <<109>>)

----------------------------------------------------------------------------
(* SpecGlob: Globber::new on a cache with a few glob records and a globs2 file of
   a few lines, and then one call of lookup_filename. *)

GlobRecord(glob, mime, meta) == [glob |-> glob, mime |-> mime, meta |-> meta]

\* meta is the weight, with 0x100 (case-sensitive) set in the second record.
GlobSamples ==
    {GlobRecord(<<42, 46, 97>>, <<109>>, 80),           \* *.a    m  80
     GlobRecord(<<42, 46, 97>>, <<110>>, 306),          \* *.a    n  0x100 | 50
     GlobRecord(<<42, 46, 98, 46, 97>>, <<111>>, 50),   \* *.b.a  o  50
     GlobRecord(<<42, 46, 97, 63>>, <<109>>, 50),       \* *.a?   m  50
     GlobRecord(<<42, 97>>, <<109>>, 50),               \* *a     m  50
     GlobRecord(<<42, 46>>, <<110>>, 50)}               \* *.     n  50

GlobLines ==
    {<<54, 48, 58, 116, 58, 42, 46, 97>>,               \* 60:t:*.a
     <<57, 58, 117, 58, 42, 46, 97>>,                   \* 9:u:*.a
     <<53, 48, 58, 116, 58, 42, 46, 91, 97>>,           \* 50:t:*.[a
     <<53, 48, 58, 116, 58, 97, 46, 42>>,               \* 50:t:a.*
     <<35, 99>>,                                        \* #c
     <<53, 58, 109>>}                                   \* 5:m

SamplePaths ==
    {<<120, 46, 97>>,                                   \* x.a
     <<120, 46, 98, 46, 97>>,                           \* x.b.a
     <<120>>,                                           \* x
     <<46, 97>>,                                        \* .a
     <<120, 46, 65>>,                                   \* x.A
     <<120, 46, 98>>,                                   \* x.b
     <<120, 46>>,                                       \* x.
     <<100, 46, 97, 47, 120>>,                          \* d.a/x
     <<100, 47, 120, 46, 97, 47>>}                      \* d/x.a/

InitGlob ==
    /\ in_globs \in SeqsUpTo(GlobSamples, MaxEntries)
    /\ in_lines \in SeqsUpTo(GlobLines, MaxEntries - Len(in_globs))
    /\ in_icons = <<>>
    /\ fs_cache = File(BuildCache(in_globs, in_icons, FALSE))
    /\ fs_globs2 = TextFile(JoinLines(in_lines, <<10>>))
    /\ mime_cache = MimeCacheNew(fs_cache)
    /\ in_header = mime_cache.val.cache_header
    /\ globber = None
    /\ globs2_out = None
    /\ mime_type = <<>>
    /\ min_index = 0
    /\ max_index = 0
    /\ index = 0
    /\ pc = "idle"
    /\ icon_result = None
    /\ linear_result = None
    /\ path = <<>>
    /\ lookup_result = None
    /\ locals = NoLocals
    /\ steps = <<>>
    /\ searcher = None

\* Globber::new(&mime_cache)
NewGlobber ==
    /\ globber.tag = "None"
    /\ globber' = GlobberNew(mime_cache.val, fs_globs2)
    /\ UNCHANGED <<fs_cache, fs_globs2, in_header, in_icons, in_globs, in_lines,
                   mime_cache, globs2_out, mime_type, min_index, max_index, index,
                   pc, icon_result, linear_result, path, lookup_result,
                   locals, steps, searcher>>

\* globber.lookup_filename(name), MimeSearcher::find_mimetype_from_filepath
LookupFilename ==
    /\ globber.tag = "Ok"
    /\ path = <<>>
    /\ \E name \in SamplePaths :
           /\ path' = name
           /\ lookup_result' = lookup_filename(globber.val, name)
    /\ UNCHANGED <<fs_cache, fs_globs2, in_header, in_icons, in_globs, in_lines,
                   mime_cache, globber, globs2_out, mime_type, min_index, max_index,
                   index, pc, icon_result, linear_result,
                   locals, steps, searcher>>

NextGlob == NewGlobber \/ LookupFilename

SpecGlob == InitGlob /\ [][NextGlob]_vars

----------------------------------------------------------------------------
(* C4, C5, C6: the glob index. *)

\* What the two sources hold, in the order 'all records of the binary cache, then
\* all lines of the text file that are no comment': a glob, a weight, a MIME type.
RECURSIVE BinaryEntries(_)
BinaryEntries(globs) ==
    IF globs = <<>> THEN <<>>
    ELSE <<GlobTuple(Head(globs).glob, Head(globs).meta % 256, Head(globs).mime)>>
         \o BinaryEntries(Tail(globs))

TextEntries == TuplesOf(SelectSeq(in_lines, IsNotComment))
AllEntries == BinaryEntries(in_globs) \o TextEntries

\* The glob is "*." and then a suffix with no "?" and no "[" in it.
IsSimpleGlob(g) ==
    /\ Len(g) >= 2
    /\ g[1] = 42
    /\ g[2] = 46
    /\ \A i \in 3..Len(g) : g[i] # 63 /\ g[i] # 91

StarDot(k) == <<42, 46>> \o k

\* The last entry of `entries` whose glob is g.
LastWith(entries, g) ==
    entries[CHOOSE i \in 1..Len(entries) :
                /\ entries[i].glob = g
                /\ \A j \in (i + 1)..Len(entries) : entries[j].glob # g]

TheMap == globber.val.simple_globing_map

\* C4: the index maps each extension to the last simple-suffix entry for it in
\* 'the binary records in record order, then the text lines in line order',
\* whatever the weights: the text entry wins over a binary one of higher weight,
\* and in one source the last entry wins.  That entry's MIME type is what the
\* lookup of a file name with the extension returns (an extension has no "." in
\* it: see C6).
C4_LastEntryWins ==
    globber.tag = "Ok" =>
        \A i \in 1..Len(AllEntries) :
            IsSimpleGlob(AllEntries[i].glob) =>
                LET k == SubSeq(AllEntries[i].glob, 3, Len(AllEntries[i].glob))
                    e == LastWith(AllEntries, AllEntries[i].glob) IN
                /\ k \in DOMAIN TheMap
                /\ TheMap[k] = [weight |-> e.weight, mime |-> e.mime]
                /\ (\A j \in 1..Len(k) : k[j] # 46) =>
                       lookup_filename(globber.val, <<120, 46>> \o k) = Ok(e.mime)

\* "a" is in the binary cache with weight 80 and in the text file with weight 60,
\* and the index holds the text file's MIME type.
C4_Witness ==
    /\ globber.tag = "Ok"
    /\ \E i \in 1..Len(in_globs) : in_globs[i] = GlobRecord(<<42, 46, 97>>, <<109>>, 80)
    /\ \E i \in 1..Len(TextEntries) : TextEntries[i] = GlobTuple(<<42, 46, 97>>, 60, <<116>>)
    /\ TheMap[<<97>>] = [weight |-> 60, mime |-> <<116>>]

\* The index that Globber::new builds from these records and lines.
IndexOf2(globs, lines) ==
    GlobberNew(MimeCacheNew(File(BuildCache(globs, <<>>, FALSE))).val,
               TextFile(JoinLines(lines, <<10>>)))

SimpleRecord(r) == IsSimpleGlob(r.glob)
SimpleLine(l) == IsComment(l) \/ IsSimpleGlob(GlobText(l))

\* C5: a key k is in the index only if some entry of a source has the glob
\* "*." + k and k has no "?" and no "["; a glob of another shape adds no key,
\* overwrites none and raises no error: the read succeeds when every line of the
\* text file is well formed, and the index is the one built without those globs.
C5_OnlySimpleGlobs ==
    globber.tag # "None" =>
        IF \A i \in 1..Len(in_lines) : IsNotComment(in_lines[i]) => WellFormed(in_lines[i])
        THEN /\ globber.tag = "Ok"
             /\ \A k \in DOMAIN TheMap :
                    /\ \E i \in 1..Len(AllEntries) : AllEntries[i].glob = StarDot(k)
                    /\ \A j \in 1..Len(k) : k[j] # 63 /\ k[j] # 91
             /\ path = <<>> =>
                    TheMap = IndexOf2(SelectSeq(in_globs, SimpleRecord),
                                      SelectSeq(in_lines, SimpleLine)).val.simple_globing_map
        ELSE globber.tag = "Err"

\* Both sources held a glob of another shape beside a simple one, and the index
\* has the simple one's key only.
C5_Witness ==
    /\ globber.tag = "Ok"
    /\ \E i \in 1..Len(in_globs) : in_globs[i].glob = <<42, 46, 97, 63>>
    /\ \E i \in 1..Len(in_lines) : in_lines[i] = <<53, 48, 58, 116, 58, 42, 46, 91, 97>>
    /\ \E i \in 1..Len(in_globs) : in_globs[i].glob = <<42, 46, 97>>
    /\ DOMAIN TheMap = {<<97>>}

\* The file name of the path looked up, and the place of its last ".", 0 when it
\* has none.
NameOf(p) == FileName(p).val
LastDot(name) ==
    IF \E i \in 1..Len(name) : name[i] = 46
    THEN CHOOSE i \in 1..Len(name) : name[i] = 46 /\ \A j \in (i + 1)..Len(name) : name[j] # 46
    ELSE 0
AfterLastDot(name) == SubSeq(name, LastDot(name) + 1, Len(name))
EntryFor(k) == IF k \in DOMAIN TheMap THEN Ok(TheMap[k].mime) ELSE None

\* C6 as stated: the lookup is of the text after the last "." of the file name,
\* None when the name has no ".".
C6_LooksUpAfterLastDot ==
    path # <<>> =>
        lookup_result = IF LastDot(NameOf(path)) = 0 THEN None
                        ELSE EntryFor(AfterLastDot(NameOf(path)))

\* C6, amended: find_mimetype_from_filepath looks up the text after the last "."
\* of the file name, byte for byte, and nothing else; it returns None when the
\* name has no ".", when its only "." is its first character (".a" has no
\* extension), and when the index has no entry for that text.
C6_LooksUpExtension ==
    path # <<>> =>
        lookup_result = IF LastDot(NameOf(path)) <= 1 THEN None
                        ELSE EntryFor(AfterLastDot(NameOf(path)))

\* "x.b.a" was looked up in an index with the keys "b.a" and "a", and the entry
\* of "a" came back.
C6_Witness ==
    /\ path = <<120, 46, 98, 46, 97>>
    /\ <<98, 46, 97>> \in DOMAIN TheMap
    /\ <<97>> \in DOMAIN TheMap
    /\ TheMap[<<98, 46, 97>>].mime # TheMap[<<97>>].mime
    /\ lookup_result = Ok(TheMap[<<97>>].mime)

----------------------------------------------------------------------------
(* SpecNew: one call of MimeSearcher::new, a fallible step at a time, on cache
   files that are missing, cut short or whole, with good and bad strings and
   offsets, and globs2 files that are missing or hold good and bad lines. *)

\* Records in the glob list and lines in the globs2 file of SpecNew, together.
MaxNew == 2

\* mime_cache.rs: Globber::new decodes the glob list before it reads globs2.
NewOrder_decode_first ==
    <<"read_cache", "read_header", "get_globs_from_cache", "read_globs2",
      "get_globs2_data", "insert">>

\* lib.rs: the fallible steps of MimeSearcher::new in the order it takes them,
\* through MimeCache::new and Globber::new, and the loop of inserts that ends it.
NewOrder ==
    <<"read_cache", "read_header", "read_globs2", "get_globs_from_cache",
      "get_globs2_data", "insert">>

\* The step after `step`, "returned" after the last one.
StepAfter(step) ==
    LET k == CHOOSE i \in 1..Len(NewOrder) : NewOrder[i] = step IN
    IF k < Len(NewOrder) THEN NewOrder[k + 1] ELSE "returned"

\* lib.rs: the `?` after a step.  Ok goes on to the next step; an Err is the
\* value MimeSearcher::new returns, through either constructor, as it is; a
\* panic ends the call as well.
Try(r, step) ==
    IF r.tag = "Ok" THEN [pc |-> StepAfter(step), searcher |-> None]
    ELSE [pc |-> "returned", searcher |-> r]

\* std::fs::read("/usr/share/mime/mime.cache").map_err(|_| MimeCacheNotFound)
ReadCacheFile(file) ==
    IF file.readable THEN Ok(file.bytes) ELSE Err("MimeCacheNotFound")

\* std::fs::read_to_string("/usr/share/mime/globs2").map_err(|_| Globs2NotFound):
\* fails on a file that cannot be read and on one that is not UTF-8.
ReadToString(file) ==
    IF ~file.readable \/ ~IsUtf8(file.text) THEN Err("Globs2NotFound")
    ELSE Ok(file.text)

\* A glob record whose GLOB_OFFSET is `at`: "pool" names its string in the pool,
\* "end" is the length of the file, "past" is one more.
GlobRecordAt(glob, mime, meta, at) ==
    [glob |-> glob, mime |-> mime, meta |-> meta, at |-> at]

NewGlobSamples ==
    {GlobRecordAt(<<42, 46, 97>>, <<109>>, 80, "pool"),     \* *.a     m
     GlobRecordAt(<<42, 46, 255>>, <<109>>, 50, "pool"),    \* *.\xFF  m
     GlobRecordAt(<<42, 46, 98>>, <<255>>, 50, "pool"),     \* *.b     \xFF
     GlobRecordAt(<<42, 46, 97>>, <<110>>, 50, "end"),
     GlobRecordAt(<<42, 46, 97>>, <<110>>, 50, "past")}

NewLines ==
    {<<54, 48, 58, 116, 58, 42, 46, 97>>,                   \* 60:t:*.a
     <<35, 99>>,                                            \* #c
     <<53, 58, 109>>,                                       \* 5:m
     <<120, 58, 109, 58, 42, 46, 97>>,                      \* x:m:*.a
     <<53, 58, 109, 58, 42, 46, 255>>}                      \* 5:m:*.\xFF

\* data with the bytes from byte `at` on replaced by `bytes`.
Patch(data, at, bytes) ==
    [i \in 1..Len(data) |->
        IF i > at /\ i <= at + Len(bytes) THEN bytes[i - at] ELSE data[i]]

\* data with the GLOB_OFFSET of each record from the k-th on that is not "pool"
\* replaced; g is the offset of the glob list.
RECURSIVE PatchGlobOffsets(_, _, _, _)
PatchGlobOffsets(data, g, globs, k) ==
    IF k > Len(globs) THEN data
    ELSE LET here == g + 4 + GlobStride * (k - 1)
             patched ==
                 IF globs[k].at = "end" THEN Patch(data, here, BE32(U32(Len(data))))
                 ELSE IF globs[k].at = "past"
                      THEN Patch(data, here, BE32(U32(Len(data) + 1)))
                 ELSE data IN
         PatchGlobOffsets(patched, g, globs, k + 1)

\* The bytes of the cache file with these glob records and no generic-icons
\* record.
NewCacheBytes(globs) ==
    PatchGlobOffsets(BuildCache(globs, <<>>, FALSE),
                     HeaderLen + Len(Pool(GlobStrings(globs))), globs, 1)

\* The cache files with these glob records: none, one cut inside its header,
\* the whole one.
NewCacheFiles(globs) ==
    {Unreadable,
     File(SubSeq(NewCacheBytes(globs), 1, HeaderLen - 1)),
     File(NewCacheBytes(globs))}

InitNew ==
    /\ in_globs \in SeqsUpTo(NewGlobSamples, MaxNew)
    /\ in_lines \in SeqsUpTo(NewLines, MaxNew - Len(in_globs))
    /\ in_icons = <<>>
    /\ fs_cache \in NewCacheFiles(in_globs)
    /\ fs_globs2 \in {NoFile, TextFile(JoinLines(in_lines, <<10>>))}
    /\ in_header = LayoutHeader(HeaderLen, HeaderLen)
    /\ mime_cache = None
    /\ globber = None
    /\ globs2_out = None
    /\ mime_type = <<>>
    /\ min_index = 0
    /\ max_index = 0
    /\ index = 0
    /\ pc = NewOrder[1]
    /\ icon_result = None
    /\ linear_result = None
    /\ path = <<>>
    /\ lookup_result = None
    /\ locals = NoLocals
    /\ steps = <<>>
    /\ searcher = None

\* What every step of MimeSearcher::new does: it runs, and its `?` decides
\* where the call goes on.
NewStep(step, r) ==
    /\ pc = step
    /\ steps' = Append(steps, step)
    /\ pc' = Try(r, step).pc
    /\ searcher' = Try(r, step).searcher
    /\ UNCHANGED <<fs_cache, fs_globs2, in_header, in_icons, in_globs, in_lines,
                   mime_type, min_index, max_index, index, icon_result,
                   linear_result, path, lookup_result>>

\* MimeCache::new: let cache_contents = std::fs::read(..)?
ReadCache ==
    LET r == ReadCacheFile(fs_cache) IN
    /\ NewStep("read_cache", r)
    /\ locals' = [locals EXCEPT !.cache_contents = r]
    /\ UNCHANGED <<mime_cache, globber, globs2_out>>

\* MimeCache::new: cache_contents.get(0..40).ok_or(MissingHeader)?, read_header
\* and Ok(MimeCache {..}).
ReadHeader ==
    LET r == MimeCacheNew(File(locals.cache_contents.val)) IN
    /\ NewStep("read_header", r)
    /\ mime_cache' = r
    /\ UNCHANGED <<locals, globber, globs2_out>>

\* Globber::new: let globs2_data = std::fs::read_to_string(..)?
ReadGlobs2 ==
    LET r == ReadToString(fs_globs2) IN
    /\ NewStep("read_globs2", r)
    /\ locals' = [locals EXCEPT !.globs2_data = r]
    /\ UNCHANGED <<mime_cache, globber, globs2_out>>

\* Globber::new: Self::get_globs_from_cache(cache)?
GetGlobsFromCache ==
    LET r == get_globs_from_cache(mime_cache.val) IN
    /\ NewStep("get_globs_from_cache", r)
    /\ locals' = [locals EXCEPT !.from_cache = r]
    /\ UNCHANGED <<mime_cache, globber, globs2_out>>

\* Globber::new: Self::get_globs2_data(&globs2_data)?
GetGlobs2Data ==
    LET r == get_globs2_data(locals.globs2_data.val) IN
    /\ NewStep("get_globs2_data", r)
    /\ globs2_out' = r
    /\ UNCHANGED <<mime_cache, globber, locals>>

\* Globber::new: the loop of inserts and Ok(Globber {..}); MimeSearcher::new:
\* Ok(MimeSearcher {..}).
InsertAndReturn ==
    LET g == Ok([globs2_data |-> locals.globs2_data.val,
                 simple_globing_map |->
                     InsertAll(EmptyMap, locals.from_cache.val \o globs2_out.val)]) IN
    /\ pc = "insert"
    /\ steps' = Append(steps, "insert")
    /\ globber' = g
    /\ searcher' = Ok([globber |-> g.val, mime_cache |-> mime_cache.val])
    /\ pc' = StepAfter("insert")
    /\ UNCHANGED <<fs_cache, fs_globs2, in_header, in_icons, in_globs, in_lines,
                   mime_cache, globs2_out, mime_type, min_index, max_index, index,
                   icon_result, linear_result, path, lookup_result, locals>>

NextNew ==
    \/ ReadCache
    \/ ReadHeader
    \/ ReadGlobs2
    \/ GetGlobsFromCache
    \/ GetGlobs2Data
    \/ InsertAndReturn

SpecNew == InitNew /\ [][NextNew]_vars

----------------------------------------------------------------------------
(* C13: the order of failures in MimeSearcher::new. *)

\* The steps in the order the claim gives them, and the inserts that follow.
ClaimedOrder ==
    <<"read_cache", "read_header", "read_globs2", "get_globs_from_cache",
      "get_globs2_data", "insert">>

\* 0xFF is in no UTF-8 string, and is the one byte above 0x7F in the samples.
HasFF(str) == \E i \in 1..Len(str) : str[i] = 255

\* What decoding a glob record fails with, None when it does not: its glob is
\* decoded first, and in the samples a record with a bad offset has good strings.
FaultOf(rec) ==
    IF rec.at = "past" THEN Panic
    ELSE IF rec.at = "end" THEN Err("CstrUnterminated")
    ELSE IF HasFF(rec.glob) \/ HasFF(rec.mime) THEN Err("InvalidUTF8")
    ELSE None

FaultyGlobs == {k \in 1..Len(in_globs) : FaultOf(in_globs[k]) # None}
FirstFaulty == CHOOSE k \in FaultyGlobs : \A j \in FaultyGlobs : k <= j

\* What each step fails with on these files, None when it succeeds.
FailureOf(step) ==
    CASE step = "read_cache" ->
           IF fs_cache.readable THEN None ELSE Err("MimeCacheNotFound")
      [] step = "read_header" ->
           IF Len(fs_cache.bytes) >= 40 THEN None ELSE Err("MissingHeader")
      [] step = "read_globs2" ->
           IF fs_globs2.readable /\ \A i \in 1..Len(in_lines) : ~HasFF(in_lines[i])
           THEN None ELSE Err("Globs2NotFound")
      [] step = "get_globs_from_cache" ->
           IF FaultyGlobs = {} THEN None ELSE FaultOf(in_globs[FirstFaulty])
      [] step = "get_globs2_data" ->
           IF BadLines = {} THEN None
           ELSE IF Cardinality(Colons(in_lines[FirstBad])) < 2
                THEN ErrLine("Globs2BadLine", in_lines[FirstBad])
                ELSE Err("NotANumber")
      [] step = "insert" -> None

\* The place in ClaimedOrder of the earliest step that fails, of the last step
\* when none does.
Failing == {k \in 1..Len(ClaimedOrder) : FailureOf(ClaimedOrder[k]) # None}
LastStep == IF Failing = {} THEN Len(ClaimedOrder)
            ELSE CHOOSE k \in Failing : \A j \in Failing : k <= j

\* C13: MimeSearcher::new returns a searcher only when every step succeeded;
\* otherwise it returns, as it is, the error of the earliest failing step in the
\* order read cache file, header length check, read globs2, decode the binary
\* glob list, parse the globs2 lines.  No step after the failing one runs, none
\* runs twice, and no searcher is there before the call returns.  (A glob offset
\* past the end of the file is no error value: the decode step panics, and the
\* call ends there as well.)
C13_EarliestFailure ==
    /\ steps = SubSeq(ClaimedOrder, 1, Len(steps))
    /\ Len(steps) <= LastStep
    /\ pc # "returned" => searcher = None /\ Len(steps) < LastStep
    /\ pc = "returned" =>
           /\ Len(steps) = LastStep
           /\ IF Failing = {}
              THEN /\ searcher.tag = "Ok"
                   /\ mime_cache.tag = "Ok" /\ globber.tag = "Ok"
                   /\ searcher.val = [globber |-> globber.val,
                                      mime_cache |-> mime_cache.val]
              ELSE /\ searcher = FailureOf(ClaimedOrder[LastStep])
                   /\ globber = None
    /\ searcher.tag = "Ok" => Failing = {} /\ pc = "returned"

\* The globs2 file is missing, the cache has a glob record that cannot be decoded
\* and the list of lines has a bad line: Globs2NotFound is returned.
C13_Witness ==
    /\ pc = "returned"
    /\ Cardinality(Failing) >= 2
    /\ LastStep = 3
    /\ FaultyGlobs # {}
    /\ searcher = Err("Globs2NotFound")

\* Each way of ending is reached: a searcher, and the failure of each step.
ReturnsSearcher == pc = "returned" /\ searcher.tag = "Ok" /\ Len(in_globs) + Len(in_lines) = MaxNew
ReturnsNoCache == pc = "returned" /\ searcher = Err("MimeCacheNotFound") /\ Cardinality(Failing) >= 2
ReturnsNoHeader == pc = "returned" /\ searcher = Err("MissingHeader") /\ Cardinality(Failing) >= 2
ReturnsUnterminated == pc = "returned" /\ searcher = Err("CstrUnterminated") /\ Cardinality(Failing) >= 2
ReturnsInvalidUTF8 == pc = "returned" /\ searcher = Err("InvalidUTF8") /\ Cardinality(Failing) >= 2
ReturnsBadLine == pc = "returned" /\ searcher.tag = "Err" /\ searcher.err = "Globs2BadLine"
ReturnsNotANumber == pc = "returned" /\ searcher = Err("NotANumber")
DecodePanics == pc = "returned" /\ searcher = Panic

\* The steps together are the two constructors called one after the other.
NewAsWhole ==
    pc = "returned" =>
        searcher = IF MimeCacheNew(fs_cache).tag # "Ok" THEN MimeCacheNew(fs_cache)
                   ELSE LET g == GlobberNew(MimeCacheNew(fs_cache).val, fs_globs2) IN
                        IF g.tag # "Ok" THEN g
                        ELSE Ok([globber |-> g.val,
                                 mime_cache |-> MimeCacheNew(fs_cache).val])

====
